---- MODULE Spec2Model ----
(***************************************************************************)
(* Model of check_HEX_file_errors: main.c, intel_hex_file_analyzer.c and   *)
(* record_handler.c.                                                       *)
(*                                                                         *)
(* A line is the C string that fgets stored, as a sequence of one-char     *)
(* strings (the terminating NUL is not part of the sequence).  Indexes in  *)
(* the C code are 0-based; index p of the code is element p+1 here.        *)
(*                                                                         *)
(* int32_t/uint32_t values stay below 2^31 in every operation modelled     *)
(* with plain integers; the one computation that leaves that range, the    *)
(* absolute address, is carried out on 16-bit halves (Word32).             *)
(* The target is little-endian with 32-bit int and 64-bit size_t.          *)
(***************************************************************************)
EXTENDS Integers, Naturals, Sequences, FiniteSets, TLC

(***************************************************************************)
(* Characters and the C library scanning primitives.                       *)
(***************************************************************************)
HexChars == <<"0","1","2","3","4","5","6","7","8","9","A","B","C","D","E","F">>

LowerHexChars == <<"a","b","c","d","e","f">>

\* isxdigit
IsHexDigit(c) ==
    \/ \E k \in 1..16 : HexChars[k] = c
    \/ \E k \in 1..6 : LowerHexChars[k] = c

\* value of one hexadecimal digit, as strtoul(..., 16) reads it
HexVal(c) ==
    IF \E k \in 1..16 : HexChars[k] = c
    THEN (CHOOSE k \in 1..16 : HexChars[k] = c) - 1
    ELSE (CHOOSE k \in 1..6 : LowerHexChars[k] = c) + 9

\* isspace
IsSpace(c) == c \in {" ", "\n", "\r", "\t"}

\* strlen
strlen(s) == Len(s)

\* first 1-based index >= p of s that holds no white space (Len(s)+1: none)
RECURSIVE SkipSpace(_, _)
SkipSpace(s, p) ==
    IF p > Len(s) THEN Len(s) + 1
    ELSE IF IsSpace(s[p]) THEN SkipSpace(s, p + 1)
    ELSE p

\* number of characters a %<w>s conversion takes from 1-based index p on
RECURSIVE TokenLen(_, _, _)
TokenLen(s, p, w) ==
    IF w = 0 \/ p > Len(s) \/ IsSpace(s[p]) THEN 0
    ELSE 1 + TokenLen(s, p + 1, w - 1)

\* the n characters from index q on as the result of a %s conversion
Token(s, q, n) ==
    [ok |-> n > 0, str |-> SubSeq(s, q, q + n - 1), next |-> q + n]

\* sscanf "%<w>s" at 1-based index p: white space is skipped, then up to w
\* characters that are not white space are stored; the conversion fails only
\* at the end of the string.
ScanStr(s, p, w) ==
    Token(s, SkipSpace(s, p), TokenLen(s, SkipSpace(s, p), w))

\* number of hexadecimal digits a %<w>X conversion takes from index p on
RECURSIVE HexRunLen(_, _, _)
HexRunLen(s, p, w) ==
    IF w = 0 \/ p > Len(s) \/ ~IsHexDigit(s[p]) THEN 0
    ELSE 1 + HexRunLen(s, p + 1, w - 1)

\* value of the hexadecimal digit string s
RECURSIVE HexNum(_)
HexNum(s) ==
    IF Len(s) = 0 THEN 0
    ELSE 16 * HexNum(SubSeq(s, 1, Len(s) - 1)) + HexVal(s[Len(s)])

\* the n hexadecimal digits from index q on as the result of a %X conversion
HexToken(s, q, n) ==
    [ok |-> n > 0, val |-> HexNum(SubSeq(s, q, q + n - 1)), next |-> q + n]

\* sscanf "%<w>X" at 1-based index p: white space is skipped, then up to w
\* hexadecimal digits are converted; no digit is a matching failure and the
\* argument is left untouched.  (Signs and the 0x prefix, which %X also
\* accepts, do not occur in the lines of this model.)
ScanHex(s, p, w) ==
    HexToken(s, SkipSpace(s, p), HexRunLen(s, SkipSpace(s, p), w))

\* fgets(line, sizeof(line), fptr) stores at most 99 characters; no string of
\* the program is longer, so 99 also serves as "no field width" (plain %X).
MaxLineLen == 99

(***************************************************************************)
(* Indeterminate values.  A local variable or a malloc'ed byte that is     *)
(* read before it is written holds whatever the stack or heap held; the    *)
(* model draws it from these sets.                                         *)
(***************************************************************************)
\* largest number of data bytes of the lines of this model
MaxDataBytes == 2

\* some values of an uninitialised 32-bit object
GarbageWords == {0, 1, 7}

\* some values of an uninitialised heap byte
GarbageBytes == {0, 170}

\* the values an uninitialised 32-bit object can hold where the code reads
\* it; an object the code has written before is not indeterminate, and its
\* former value is represented by 0
Indeterminate(written) == IF written THEN {0} ELSE GarbageWords

\* the fresh bytes of a malloc block
HeapGarbage == [0..(MaxDataBytes - 1) -> GarbageBytes]

\* the byte at offset o of a fresh malloc block (bytes past MaxDataBytes are
\* only ever written by the lines of this model, never read)
HeapByte(g, o) == IF o \in DOMAIN g.heap THEN g.heap[o] ELSE 0

(***************************************************************************)
(* record_handler.c: checkRecord                                           *)
(***************************************************************************)
\* the result of sscanf(line, ":%2s%4s%2s", ...) from its three conversions
HeaderStrs(s1, s2, s3) ==
    [count |-> IF ~s1.ok THEN 0 ELSE IF ~s2.ok THEN 1 ELSE IF ~s3.ok THEN 2 ELSE 3,
     byte_count_str |-> s1.str, address_str |-> s2.str,
     record_type_str |-> s3.str]

\* the third conversion follows the second
ScanHeaderType(line, s1, s2) == HeaderStrs(s1, s2, ScanStr(line, s2.next, 2))

\* the second conversion follows the first
ScanHeaderAddress(line, s1) == ScanHeaderType(line, s1, ScanStr(line, s1.next, 4))

\* sscanf(line, ":%2s%4s%2s", byte_count_str, address_str, record_type_str)
\* for a line whose first character is ':'
ScanHeader(line) == ScanHeaderAddress(line, ScanStr(line, 2, 2))

\* the record types the strcmp chain accepts
ValidTypeStrs == {<<"0","0">>, <<"0","1">>, <<"0","2">>, <<"0","4">>, <<"0","5">>}

\* the field after a conversion with result r: the converted value, or the
\* old (indeterminate) value when the conversion failed
Converted(r, old) == IF r.ok THEN r.val ELSE old

\* sscanf(str, "%X", &field)
ScanField(str, old) == Converted(ScanHex(str, 1, MaxLineLen), old)

\* data_byte = (strlen(line) - 11) / 2: the subtraction and the division are
\* done in size_t, the result is converted to int32_t.  Below 11 characters
\* the difference wraps to 2^64 - d and the stored value is -ceil(d / 2).
DataByte(line) ==
    IF strlen(line) >= 11 THEN (strlen(line) - 11) \div 2
    ELSE 0 - ((11 - strlen(line) + 1) \div 2)

\* the block mem after a conversion with result r stored through
\* &(record.data[i]): an unsigned int, four bytes, low byte first; a failed
\* conversion stores nothing
StoreData(mem, i, r) ==
    IF r.ok
    THEN [o \in DOMAIN mem |->
            IF o = i THEN r.val % 256
            ELSE IF o \in (i + 1)..(i + 3) THEN 0
            ELSE mem[o]]
    ELSE mem

\* sscanf(line + 9 + i*2, "%02X", &(record.data[i])) for i = i..n-1
RECURSIVE ParseData(_, _, _, _)
ParseData(line, i, n, mem) ==
    IF i >= n THEN mem
    ELSE ParseData(line, i + 1, n,
                   StoreData(mem, i, ScanHex(line, 9 + (i * 2) + 1, 2)))

\* the data loop of n bytes stores to offset o of the block: the conversion
\* for data[i] stores to the offsets i..i+3
Written(line, n, o) ==
    \E i \in 0..(n - 1) :
        i <= o /\ o <= i + 3 /\ ScanHex(line, 9 + (i * 2) + 1, 2).ok

\* the fresh blocks a call can tell apart when it reads the offsets below top
\* after a data loop of n bytes: only an offset read without a store before
\* it holds an indeterminate byte
FreshBlocks(line, n, top) ==
    {heap \in HeapGarbage :
        \A o \in DOMAIN heap : (o >= top \/ Written(line, n, o)) => heap[o] = 0}

\* the fresh blocks for the byte count converted with result r; an
\* indeterminate byte count leaves every offset open
HeaderBlocks(line, r) ==
    IF r.ok THEN FreshBlocks(line, r.val, r.val) ELSE HeapGarbage

\* record.data[0] + ... + record.data[n-1]
RECURSIVE SumData(_, _)
SumData(mem, n) == IF n <= 0 THEN 0 ELSE mem[n - 1] + SumData(mem, n - 1)

\* ~x of an int32_t
BitNot(x) == 0 - x - 1

\* calculated_checksum of lines 192-199
CalcChecksum(byte_count, address, record_type, mem) ==
    (BitNot(byte_count + (address \div 256) + (address % 256) + record_type
            + SumData(mem, byte_count)) + 1) % 256

\* sscanf(line + strlen(line) - 3, "%02X", &checksum_record), checksum_record
\* being 0 before
ScanChecksum(line) == Converted(ScanHex(line, strlen(line) - 3 + 1, 2), 0)

\* the indeterminate values a call checkRecord with header strings h can
\* meet: the fields of the local record whose conversion fails, and the fresh
\* bytes of record.data
HeaderGarbage(line, h) ==
    [byte_count : Indeterminate(ScanHex(h.byte_count_str, 1, MaxLineLen).ok),
     address : Indeterminate(ScanHex(h.address_str, 1, MaxLineLen).ok),
     record_type : Indeterminate(ScanHex(h.record_type_str, 1, MaxLineLen).ok),
     heap : HeaderBlocks(line, ScanHex(h.byte_count_str, 1, MaxLineLen))]

CheckGarbage(line) == HeaderGarbage(line, ScanHeader(line))

\* HeaderError with the record-type test ahead of the field test
HeaderError_TypeFirst(line, h) ==
    IF strlen(line) = 0 \/ line[1] # ":" THEN 1
    ELSE IF h.record_type_str \notin ValidTypeStrs THEN 3
    ELSE IF h.count # 3 THEN 2
    ELSE 0

\* the if / else-if chain of lines 142-159, h being the result of the sscanf
\* of line 148: the error code of the start code, of the three header fields
\* and of the record type, 0 when all pass
HeaderError(line, h) ==
    IF strlen(line) = 0 \/ line[1] # ":" THEN 1
    ELSE IF h.count # 3 THEN 2
    ELSE IF h.record_type_str \notin ValidTypeStrs THEN 3
    ELSE 0

\* the locals of a call of checkRecord that has not parsed anything
NoFields ==
    [error_code |-> 0, byte_count |-> -1, address |-> -1, record_type |-> -1,
     data_byte |-> -1, alloc |-> -1, data |-> <<>>, checksum_record |-> 0,
     calculated_checksum |-> 0]

\* lines 191-210: the comparison of the calculated checksum cc with the
\* checksum ck of the record
CheckChecksum(parsed, bc, mem, ck, cc) ==
    [parsed EXCEPT !.alloc = bc,
                   !.data = [k \in 1..bc |-> mem[k - 1]],
                   !.checksum_record = ck,
                   !.calculated_checksum = cc,
                   !.error_code = IF cc # ck THEN 5 ELSE 0]

\* lines 180-211: the else branch of the byte-count test, mem being
\* record.data after the loop of line 183
CheckData(line, parsed, bc, ad, ty, mem) ==
    CheckChecksum(parsed, bc, mem, ScanChecksum(line), CalcChecksum(bc, ad, ty, mem))

\* lines 169-212: the byte-count test on the converted fields
CheckByteCount(line, g, bc, ad, ty, db) ==
    IF db # bc
    THEN [NoFields EXCEPT !.byte_count = bc, !.address = ad, !.record_type = ty,
                          !.data_byte = db, !.error_code = 4]
    ELSE CheckData(line,
                   [NoFields EXCEPT !.byte_count = bc, !.address = ad,
                                    !.record_type = ty, !.data_byte = db],
                   bc, ad, ty,
                   ParseData(line, 0, bc, [o \in 0..(bc + 2) |-> HeapByte(g, o)]))

\* checkRecord from line 142 on, h being the result of the sscanf of line 148
CheckHeader(line, g, h) ==
    IF HeaderError(line, h) # 0
    THEN [NoFields EXCEPT !.error_code = HeaderError(line, h)]
    ELSE CheckByteCount(line, g,
                        ScanField(h.byte_count_str, g.byte_count),
                        ScanField(h.address_str, g.address),
                        ScanField(h.record_type_str, g.record_type),
                        DataByte(line))

\* checkRecord(line) when the indeterminate values it may read are g.  The
\* result holds the returned error_code and the locals of the call.
checkRecord(line, g) == CheckHeader(line, g, ScanHeader(line))

(***************************************************************************)
(* record_handler.c: displayRecordInfo                                     *)
(***************************************************************************)
\* an unsigned 32-bit value as the pair of its 16-bit halves
Word32(hi, lo) == [hi |-> hi % 65536, lo |-> lo % 65536]

\* a + b of two 32-bit values, wrapping as the machine addition does
Add32(a, b) ==
    Word32(a.hi + b.hi + ((a.lo + b.lo) \div 65536), a.lo + b.lo)

\* the 32-bit value of a non-negative integer below 2^31
ToWord32(n) == Word32(n \div 65536, n)

\* SegmentAddress with the multipliers of the linear branch
SegmentAddress_LinearScale(base, d0, d1) ==
    Add32(Add32(ToWord32(base), Word32(d0 * 256, 0)), Word32(d1, 0))

\* abs_address of line 265
SegmentAddress(base, d0, d1) ==
    Add32(Add32(ToWord32(base), ToWord32(d0 * 4096)), ToWord32(d1 * 16))

\* LinearAddress with the multipliers of the segment branch
LinearAddress_SegmentScale(base, d0, d1) ==
    Add32(Add32(ToWord32(base), ToWord32(d0 * 4096)), ToWord32(d1 * 16))

\* abs_address of line 279: data[0] * 0x1000000 is d0 * 0x100 in the upper
\* half, data[1] * 0x10000 is d1 in the upper half; the int additions wrap
\* and %08X prints the 32 bits as an unsigned value
LinearAddress(base, d0, d1) ==
    Add32(Add32(ToWord32(base), Word32(d0 * 256, 0)), Word32(d1, 0))

\* the fields after sscanf(line, ":%02X%04X%02X", ...) whose conversions
\* gave f1, f2, f3: the conversions stop at the first failure (a line
\* without ':' fails all three) and the remaining fields keep their
\* indeterminate values
RecordFields(line, g, f1, f2, f3) ==
    [converted   |-> IF strlen(line) = 0 \/ line[1] # ":" \/ ~f1.ok THEN 0
                     ELSE IF ~f2.ok THEN 1 ELSE IF ~f3.ok THEN 2 ELSE 3,
     byte_count  |-> IF strlen(line) > 0 /\ line[1] = ":" /\ f1.ok
                     THEN f1.val ELSE g.byte_count,
     address     |-> IF strlen(line) > 0 /\ line[1] = ":" /\ f1.ok /\ f2.ok
                     THEN f2.val ELSE g.address,
     record_type |-> IF strlen(line) > 0 /\ line[1] = ":" /\ f1.ok /\ f2.ok /\ f3.ok
                     THEN f3.val ELSE g.record_type]

\* the third conversion follows the second
ScanRecordType(line, g, f1, f2) ==
    RecordFields(line, g, f1, f2, ScanHex(line, f2.next, 2))

\* the second conversion follows the first
ScanRecordAddress(line, g, f1) ==
    ScanRecordType(line, g, f1, ScanHex(line, f1.next, 4))

\* sscanf(line, ":%02X%04X%02X", &byte_count, &address, &record_type)
ScanRecordHeader(line, g) == ScanRecordAddress(line, g, ScanHex(line, 2, 2))

\* sscanf(line + strlen(line) - 3, "%02X", &(record.checksum))
ScanRecordChecksum(line, g) ==
    IF strlen(line) >= 3
    THEN Converted(ScanHex(line, strlen(line) - 3 + 1, 2), g.checksum)
    ELSE g.checksum

\* no indeterminate value
NoGarbage ==
    [byte_count |-> 0, address |-> 0, record_type |-> 0, checksum |-> 0,
     heap |-> [o \in 0..(MaxDataBytes - 1) |-> 0]]

\* the offsets of record.data that displayRecordInfo reads for the header h:
\* the data bytes, and data[0] and data[1] in the two address branches
DisplayTop(h) ==
    IF (h.converted < 3 \/ h.record_type \in {2, 4}) /\ h.byte_count < 2
    THEN 2 ELSE h.byte_count

\* the indeterminate values a call displayRecordInfo can meet when the
\* header conversions give h: record.byte_count is read by malloc before any
\* conversion
FieldGarbage(line, h) ==
    [byte_count : GarbageWords,
     address : Indeterminate(h.converted >= 2),
     record_type : Indeterminate(h.converted >= 3),
     checksum : Indeterminate(strlen(line) >= 3
                              /\ ScanHex(line, strlen(line) - 3 + 1, 2).ok),
     heap : IF h.converted = 0 THEN HeapGarbage
            ELSE FreshBlocks(line, h.byte_count, DisplayTop(h))]

DisplayGarbage(line) == FieldGarbage(line, ScanRecordHeader(line, NoGarbage))

\* NextBase with the assignment in every branch
NextBase_AnyRecord(h, base) == h.address

\* the static base_address after the branches of lines 248-290: only the
\* Data branch assigns it (line 255)
NextBase(h, base) == IF h.record_type = 0 THEN h.address ELSE base

\* the size of the block the data loop and the address computation touch
BlockTop(bc) == IF bc > 2 THEN bc + 2 ELSE 4

\* lines 247-291: the output and the new base_address for the parsed fields
\* h and the data block mem.  alloc is the size handed to malloc
\* (record.byte_count before it is parsed).  A record whose data is stored
\* or read through a NULL pointer ends the process (crash).
DisplayBranch(line, record_number, base, g, null, h, mem) ==
    [crash |-> /\ null
               /\ \/ \E i \in 0..(h.byte_count - 1) :
                        ScanHex(line, 9 + (i * 2) + 1, 2).ok
                  \/ h.record_type \in {2, 4}
                  \/ (h.record_type = 0 /\ h.byte_count > 0),
     record_number |-> record_number,
     kind |-> IF h.record_type = 0 THEN "DATA"
              ELSE IF h.record_type = 2 THEN "EXTENDED SEGMENT ADDRESS"
              ELSE IF h.record_type = 4 THEN "EXTENDED LINEAR ADDRESS"
              ELSE "END-OF-FILE",
     alloc |-> g.byte_count,
     byte_count |-> h.byte_count,
     address |-> h.address,
     record_type |-> h.record_type,
     data |-> [k \in 1..h.byte_count |-> mem[k - 1]],
     d0 |-> IF h.record_type \in {2, 4} THEN mem[0] ELSE 0,
     d1 |-> IF h.record_type \in {2, 4} THEN mem[1] ELSE 0,
     checksum |-> ScanRecordChecksum(line, g),
     printed_base |-> base,
     abs_address |-> IF h.record_type = 2 THEN SegmentAddress(base, mem[0], mem[1])
                     ELSE IF h.record_type = 4 THEN LinearAddress(base, mem[0], mem[1])
                     ELSE Word32(0, 0),
     base_address |-> NextBase(h, base)]

\* lines 243-246: the data loop on the fresh block
DisplayData(line, record_number, base, g, null, h) ==
    DisplayBranch(line, record_number, base, g, null, h,
                  ParseData(line, 0, h.byte_count,
                            [o \in 0..BlockTop(h.byte_count) |-> HeapByte(g, o)]))

\* displayRecordInfo(line, record_number) with the static base_address
\* holding base, the indeterminate values being g and malloc returning NULL
\* when null
displayRecordInfo(line, record_number, base, g, null) ==
    DisplayData(line, record_number, base, g, null, ScanRecordHeader(line, g))

(***************************************************************************)
(* The input: hex_file.hex as the sequence of strings fgets returns.       *)
(***************************************************************************)
\* ":00000001FF", the pattern of strncmp in checkEOF
EOFPattern == <<":","0","0","0","0","0","0","0","1","F","F">>

NewLine == <<"\n">>

\* the two hexadecimal digits of a byte, as a HEX file writes them
Hex2(b) == <<HexChars[(b \div 16) + 1], HexChars[(b % 16) + 1]>>

\* the text of a well-formed record with its newline
RECURSIVE HexBytes(_)
HexBytes(bytes) ==
    IF Len(bytes) = 0 THEN <<>> ELSE Hex2(bytes[1]) \o HexBytes(Tail(bytes))

RECURSIVE SumBytes(_)
SumBytes(bytes) == IF Len(bytes) = 0 THEN 0 ELSE bytes[1] + SumBytes(Tail(bytes))

RecordText(address, record_type, bytes) ==
    LET body == <<Len(bytes), address \div 256, address % 256, record_type>>
                \o bytes
    IN  <<":">> \o HexBytes(body) \o Hex2((256 - (SumBytes(body) % 256)) % 256)
        \o NewLine

\* field texts the single-line files are composed of
ByteCountTexts ==
    {<<"0","0">>, <<"0","1">>, <<"0","G">>, <<"G","G">>}

AddressTexts ==
    {<<"0","0","0","0">>, <<"0","0","G","0">>, <<"G","0","0","0">>}

TypeTexts ==
    {<<"0","0">>, <<"0","1">>, <<"0","3">>, <<"0","G">>}

DataTexts ==
    {<<>>, <<"F">>, <<"F","0">>, <<"G","G">>}

ChecksumTexts ==
    {<<"F","F">>, <<"0","F">>, <<"0","0">>, <<"G","G">>, <<"F">>}

Terminators ==
    {<<"\n">>, <<>>, <<"\r","\n">>}

\* lines with every field present, well-formed or not
ComposedLines ==
    { <<":">> \o b \o a \o t \o d \o c \o e :
        b \in ByteCountTexts, a \in AddressTexts, t \in TypeTexts,
        d \in DataTexts, c \in ChecksumTexts, e \in Terminators }

\* lines that stop early or do not start with ':'
ShortLines ==
    { SubSeq(EOFPattern, 1, n) \o e : n \in 1..10, e \in {<<>>, NewLine} }
    \cup
    {<<"x">>, <<"\n">>,
     <<"0",":","0","0","0","0","0","0","0","1","F","F","\n">>,
     <<" ",":","0","0","0","0","0","0","0","1","F","F","\n">>,
     <<":",":","\n">>, <<":"," ","\n">>}

RecordLines == ComposedLines \cup ShortLines

\* the lines the files of several lines are made of
FileLines ==
    {
     <<":","0","3","0","0","3","0","0","0","0","2","3","3","7","A","1","E","\n">>,
     <<":","0","2","0","0","0","0","0","4","0","0","0","1","F","9","\n">>,
     <<":","0","2","0","0","0","0","0","2","1","0","0","0","E","C","\n">>,
     <<":","0","0","0","0","0","0","0","1","F","F","\n">>,
     <<":","0","0","0","0","0","0","0","1","F","F">>,
     <<":","0","0","0","0","0","0","0","5","F","B","\n">>,
     <<":","0","0","0","0","0","0","0","1","F","E","\n">>,
     <<":","G","G","0","0","0","0","0","0","0","0","\n">>}

\* longest file of FileLines
MaxLines == 3

\* longest run of End-Of-File records
MaxEOFRun == 257

\* sample values of a data byte and of an address field
ByteSamples == {0, 1, 127, 128, 255}

AddressSamples == {0, 48, 65535}

RECURSIVE SeqsUpTo(_, _)
SeqsUpTo(S, n) ==
    IF n = 0 THEN {<<>>}
    ELSE LET shorter == SeqsUpTo(S, n - 1)
         IN  shorter \cup {Append(f, l) : f \in {x \in shorter : Len(x) = n - 1}, l \in S}

SingleLineFiles == {<<l>> : l \in RecordLines}

\* a line followed by the End-Of-File record
PairFiles ==
    {<<l, EOFPattern \o NewLine>> :
        l \in RecordLines \cup {<<":","0","0","0","0","1","0","0","1","E","F","\n">>,
         <<":","0","0","0","0","0","0","0","1","f","f","\n">>}}

MixedFiles == SeqsUpTo(FileLines, MaxLines)

\* run lengths around the values at which an 8-bit counter changes sign and
\* wraps
EOFRunLengths ==
    (0..3) \cup {MaxEOFRun \div 2} \cup ((MaxEOFRun - 2)..MaxEOFRun)

EOFRunFiles ==
    { p \o [i \in 1..k |-> EOFPattern \o NewLine] :
        p \in {<<>>, <<RecordText(48, 0, <<2, 51, 122>>)>>}, k \in EOFRunLengths }

AddressFiles ==
    { <<RecordText(a, 0, <<d1>>), RecordText(0, t, <<d0, d1>>),
        EOFPattern \o NewLine>> :
        a \in AddressSamples, t \in {2, 4}, d0 \in ByteSamples, d1 \in ByteSamples }

\* a Data record, a record of type 0x00, 0x01 or 0x05 at another address and
\* the End-Of-File record
DataFiles ==
    { <<RecordText(a, 0, <<>>), RecordText(b, t, <<>>), EOFPattern \o NewLine>> :
        a \in AddressSamples, b \in AddressSamples, t \in {0, 1, 5} }

Files ==
    SingleLineFiles \cup PairFiles \cup MixedFiles \cup EOFRunFiles
    \cup AddressFiles \cup DataFiles

(***************************************************************************)
(* The program state: main.c, with the locals of the three scans of        *)
(* intel_hex_file_analyzer.c and the static of displayRecordInfo.          *)
(***************************************************************************)
VARIABLES
    file,              \* the lines of hex_file.hex
    exists,            \* fopen succeeds
    pc,                \* position of main
    pos,               \* lines fgets has returned in the current scan
    line_of_file,      \* the line counter of the current scan
    continue_process,  \* analyzeIntelHexFile: loop flag
    file_problem,      \* main: Error_t written by analyzeIntelHexFile
    EOF_problem,       \* main: Error_t written by checkEOF
    found_EOF,         \* checkEOF: int8_t counter
    EOF_line,          \* checkEOF: copy of the latest End-Of-File line
    last_line,         \* checkEOF: copy of the latest line
    file_error_code,   \* main
    EOF_error_code,    \* main
    correct_format,    \* main
    base_address,      \* displayRecordInfo: static int32_t
    codes,             \* history: what checkRecord returned, call by call
    rec,               \* history: line and locals of the latest checkRecord
    out,               \* history: what the latest displayRecordInfo printed
    shown              \* history: number of records displayed

vars == <<file, exists, pc, pos, line_of_file, continue_process, file_problem,
          EOF_problem, found_EOF, EOF_line, last_line, file_error_code,
          EOF_error_code, correct_format, base_address, codes, rec, out, shown>>

\* an Error_t of main's stack: assigned names the fields written so far, a
\* field outside it is indeterminate
FreshError == [assigned |-> {}, error_code |-> 0, error_line |-> 0]

\* the values a read of field f of the Error_t e can give
ErrorField(e, f) == IF f \in e.assigned THEN {e[f]} ELSE GarbageWords

SetErrorField(e, f, v) == [e EXCEPT ![f] = v, !.assigned = @ \cup {f}]

NoRecord == [line |-> <<>>, result |-> [error_code |-> 0]]

NoOutput == [kind |-> "none"]

Init ==
    /\ file \in Files
    /\ exists \in {b \in BOOLEAN : b \/ file = <<>>}
    /\ pc = "start"
    /\ pos = 0
    /\ line_of_file = 1
    /\ continue_process = 1
    /\ file_problem = FreshError
    /\ EOF_problem = FreshError
    /\ found_EOF = 0
    /\ EOF_line = <<>>
    /\ last_line = <<>>
    /\ file_error_code = 0
    /\ EOF_error_code = 0
    /\ correct_format = 0
    /\ base_address = 0
    /\ codes = <<>>
    /\ rec = NoRecord
    /\ out = NoOutput
    /\ shown = 0

\* main, lines 46-57: fopen; on failure main goes to its last if statement
MainOpen ==
    /\ pc = "start"
    /\ pc' = IF exists THEN "analyze" ELSE "final"
    /\ pos' = 0
    /\ line_of_file' = 1
    /\ continue_process' = 1
    /\ UNCHANGED <<file, exists, file_problem, EOF_problem, found_EOF,
                   EOF_line, last_line, file_error_code, EOF_error_code,
                   correct_format, base_address, codes, rec, out, shown>>

\* AnalyzeBody that keeps the loop flag up after an error
AnalyzeBody_KeepGoing(e, result) ==
    LET e1 == SetErrorField(e, "error_code", result.error_code)
    IN  IF result.error_code # 0
        THEN [error |-> SetErrorField(e1, "error_line", line_of_file),
              continue_process |-> continue_process,
              line_of_file |-> line_of_file]
        ELSE [error |-> e1, continue_process |-> continue_process,
              line_of_file |-> line_of_file + 1]

\* the state one line leaves in the Error_t and the locals of
\* analyzeIntelHexFile (the loop body, lines 61-74 of the analyzer)
AnalyzeBody(e, result) ==
    LET e1 == SetErrorField(e, "error_code", result.error_code)
    IN  IF result.error_code # 0
        THEN [error |-> SetErrorField(e1, "error_line", line_of_file),
              continue_process |-> 0, line_of_file |-> line_of_file]
        ELSE [error |-> e1, continue_process |-> continue_process,
              line_of_file |-> line_of_file + 1]

\* analyzeIntelHexFile: one turn of the while loop
AnalyzeLine ==
    /\ pc = "analyze"
    /\ pos < Len(file)
    /\ continue_process # 0
    /\ \E g \in CheckGarbage(file[pos + 1]) :
         LET line == file[pos + 1]
             result == checkRecord(line, g)
             b == AnalyzeBody(file_problem, result)
         IN  /\ file_problem' = b.error
             /\ continue_process' = b.continue_process
             /\ line_of_file' = b.line_of_file
             /\ codes' = Append(codes, result.error_code)
             /\ rec' = [line |-> line, result |-> result]
    /\ pos' = pos + 1
    /\ UNCHANGED <<file, exists, pc, EOF_problem, found_EOF, EOF_line,
                   last_line, file_error_code, EOF_error_code, correct_format,
                   base_address, out, shown>>

\* FormatFlag without the case of the checksum error
FormatFlag_NoCase5(code) == IF code \in 1..4 THEN 0 ELSE 1

\* main's switch on file_error_code, lines 59-91
FormatFlag(code) == IF code \in 1..5 THEN 0 ELSE 1

\* analyzeIntelHexFile leaves its loop (fgets returned NULL, or the flag is
\* down: the line fgets read for that last test is not examined) and returns
\* error->error_code; main sets correct_format, closes the file and, when the
\* format is correct, reopens it for checkEOF
AnalyzeReturn ==
    /\ pc = "analyze"
    /\ pos = Len(file) \/ continue_process = 0
    /\ \E code \in ErrorField(file_problem, "error_code") :
         /\ file_error_code' = code
         /\ correct_format' = FormatFlag(code)
         /\ pc' = IF FormatFlag(code) # 0 THEN "eof" ELSE "final"
    /\ pos' = 0
    /\ line_of_file' = 1
    /\ found_EOF' = 0
    /\ UNCHANGED <<file, exists, continue_process, file_problem, EOF_problem,
                   EOF_line, last_line, EOF_error_code, base_address, codes,
                   rec, out, shown>>

\* strncmp(line, ":00000001FF", 11) == 0
IsEOFRecord(line) ==
    /\ Len(line) >= Len(EOFPattern)
    /\ SubSeq(line, 1, Len(EOFPattern)) = EOFPattern

\* found_EOF += 1 on an int8_t: the sum is converted back to 8 bits
Int8(n) == ((n + 128) % 256) - 128

\* checkEOF: one turn of the while loop, lines 104-127
CheckEOFLine ==
    /\ pc = "eof"
    /\ pos < Len(file)
    /\ LET line == file[pos + 1]
       IN  /\ last_line' = line
           /\ IF IsEOFRecord(line)
              THEN /\ EOF_problem' =
                        IF found_EOF = 0
                        THEN SetErrorField(EOF_problem, "error_line", line_of_file)
                        ELSE EOF_problem
                   /\ found_EOF' = Int8(found_EOF + 1)
                   /\ EOF_line' = line
              ELSE UNCHANGED <<EOF_problem, found_EOF, EOF_line>>
    /\ line_of_file' = line_of_file + 1
    /\ pos' = pos + 1
    /\ UNCHANGED <<file, exists, pc, continue_process, file_problem,
                   file_error_code, EOF_error_code, correct_format,
                   base_address, codes, rec, out, shown>>

\* EOFVerdict without the comparison with the last line
EOFVerdict_NoCompare(found, last, eofline) ==
    IF found = 0 THEN 1
    ELSE IF found = 1 THEN 0
    ELSE 3

\* the error code of lines 129-152
EOFVerdict(found, last, eofline) ==
    IF found = 0 THEN 1
    ELSE IF found = 1 THEN (IF last # eofline THEN 2 ELSE 0)
    ELSE 3

\* checkEOF returns; main's switch on EOF_error_code and fclose
CheckEOFReturn ==
    /\ pc = "eof"
    /\ pos = Len(file)
    /\ LET code == EOFVerdict(found_EOF, last_line, EOF_line)
       IN  /\ EOF_problem' = SetErrorField(EOF_problem, "error_code", code)
           /\ EOF_error_code' = code
    /\ pc' = "final"
    /\ UNCHANGED <<file, exists, pos, line_of_file, continue_process,
                   file_problem, found_EOF, EOF_line, last_line,
                   file_error_code, correct_format, base_address, codes, rec,
                   out, shown>>

\* main, lines 139-154: display the file or stop
MainFinal ==
    /\ pc = "final"
    /\ pc' = IF correct_format # 0 /\ EOF_error_code = 0 THEN "print" ELSE "done"
    /\ pos' = 0
    /\ line_of_file' = 1
    /\ UNCHANGED <<file, exists, continue_process, file_problem, EOF_problem,
                   found_EOF, EOF_line, last_line, file_error_code,
                   EOF_error_code, correct_format, base_address, codes, rec,
                   out, shown>>

\* printIntelHexFile: one turn of the while loop
PrintLine ==
    /\ pc = "print"
    /\ pos < Len(file)
    /\ \E g \in DisplayGarbage(file[pos + 1]), null \in BOOLEAN :
         LET d == displayRecordInfo(file[pos + 1], line_of_file, base_address,
                                    g, null)
         IN  IF d.crash
             THEN /\ pc' = "crashed"
                  /\ UNCHANGED <<base_address, out, shown, line_of_file>>
             ELSE /\ pc' = pc
                  /\ base_address' = d.base_address
                  /\ out' = d
                  /\ shown' = shown + 1
                  /\ line_of_file' = line_of_file + 1
    /\ pos' = pos + 1
    /\ UNCHANGED <<file, exists, continue_process, file_problem, EOF_problem,
                   found_EOF, EOF_line, last_line, file_error_code,
                   EOF_error_code, correct_format, codes, rec>>

\* printIntelHexFile returns, main closes the file and returns
PrintReturn ==
    /\ pc = "print"
    /\ pos = Len(file)
    /\ pc' = "done"
    /\ UNCHANGED <<file, exists, pos, line_of_file, continue_process,
                   file_problem, EOF_problem, found_EOF, EOF_line, last_line,
                   file_error_code, EOF_error_code, correct_format,
                   base_address, codes, rec, out, shown>>

Next ==
    \/ MainOpen
    \/ AnalyzeLine
    \/ AnalyzeReturn
    \/ CheckEOFLine
    \/ CheckEOFReturn
    \/ MainFinal
    \/ PrintLine
    \/ PrintReturn

Spec == Init /\ [][Next]_vars

\* printIntelHexFile invoked once more in the same process after a scan has
\* returned: the locals of the scan start afresh, the static of
\* displayRecordInfo keeps its value
PrintAgain ==
    /\ pc = "done"
    /\ shown > 0
    /\ shown = Len(file)
    /\ pc' = "print"
    /\ pos' = 0
    /\ line_of_file' = 1
    /\ shown' = 0
    /\ UNCHANGED <<file, exists, continue_process, file_problem, EOF_problem,
                   found_EOF, EOF_line, last_line, file_error_code,
                   EOF_error_code, correct_format, base_address, codes, rec,
                   out>>

NextRescan ==
    \/ Next
    \/ PrintAgain

\* main followed by further invocations of printIntelHexFile
SpecRescan == Init /\ [][NextRescan]_vars

TypeOK ==
    /\ pc \in {"start", "analyze", "eof", "final", "print", "done", "crashed"}
    /\ found_EOF \in -128..127
    /\ correct_format \in {0, 1}

(***************************************************************************)
(* Properties.                                                             *)
(***************************************************************************)
\* analyzeIntelHexFile has returned to main
AnalysisReturned == exists /\ pc \notin {"start", "analyze"}

\* checkEOF has returned to main
EOFScanReturned == "error_code" \in EOF_problem.assigned

\* checkRecord has been called at least once
Checked == Len(codes) > 0

\* the 1-based numbers of the lines checkEOF counts as End-Of-File records
EOFLines == {i \in 1..Len(file) : IsEOFRecord(file[i])}

FirstEOFLine == CHOOSE i \in EOFLines : \A j \in EOFLines : i <= j

\* the text of a line without its line terminator
Body(line) ==
    IF Len(line) >= 2 /\ SubSeq(line, Len(line) - 1, Len(line)) = <<"\r", "\n">>
    THEN SubSeq(line, 1, Len(line) - 2)
    ELSE IF Len(line) >= 1 /\ line[Len(line)] = "\n"
    THEN SubSeq(line, 1, Len(line) - 1)
    ELSE line

AllHex(str) == \A i \in 1..Len(str) : IsHexDigit(str[i])

\* the record's checksum field: its final two characters before the line
\* terminator
ChecksumText(line) == SubSeq(Body(line), Len(Body(line)) - 1, Len(Body(line)))

\* the data text: what stands between the record-type field and the
\* checksum field
DataText(line) == SubSeq(Body(line), 10, Len(Body(line)) - 2)

\* the eight characters of the byte-count, address and record-type fields
HeaderText(line) == SubSeq(line, 2, IF Len(line) < 9 THEN Len(line) ELSE 9)

\* C1: Pass A is fail-fast.  checkRecord is never called again after it has
\* returned a non-zero code, its k-th call is for line k of the file and
\* returns what checkRecord gives for that line, and when line k is the first
\* to fail, analyzeIntelHexFile returns that code with error_line = k.
C1_FailFast ==
    /\ Len(codes) <= Len(file)
    /\ \A i \in 1..(Len(codes) - 1) : codes[i] = 0
    /\ Checked =>
         /\ rec.line = file[Len(codes)]
         /\ rec.result.error_code = codes[Len(codes)]
         /\ \E g \in CheckGarbage(rec.line) : checkRecord(rec.line, g) = rec.result
    /\ (AnalysisReturned /\ Checked /\ codes[Len(codes)] # 0) =>
         /\ file_error_code = codes[Len(codes)]
         /\ "error_line" \in file_problem.assigned
         /\ file_problem.error_line = Len(codes)

\* C1 witness: the scan stopped at line 2 of a file of three lines
C1_Witness ==
    /\ AnalysisReturned
    /\ Len(file) = 3
    /\ Len(codes) = 2
    /\ codes[2] # 0
    /\ file_problem.error_line = 2

\* C2: for a line that passes the start-code, field, record-type and
\* byte-count checks, checkRecord returns 0 if and only if the checksum field
\* equals (256 - (byte_count + address bytes + record_type + data)) mod 256,
\* and 5 otherwise.
C2_ChecksumRule ==
    (Checked /\ rec.result.error_code \notin 1..4) =>
        LET r == rec.result
            expected == (256 - ((r.byte_count + (r.address \div 256)
                                 + (r.address % 256) + r.record_type
                                 + SumBytes(r.data)) % 256)) % 256
            matches == /\ Len(Body(rec.line)) >= 2
                       /\ AllHex(ChecksumText(rec.line))
                       /\ HexNum(ChecksumText(rec.line)) = expected
        IN  r.error_code = IF matches THEN 0 ELSE 5

C4_EOFPlacement ==
    (EOFScanReturned /\ Cardinality(EOFLines) <= 1) =>
        IF EOFLines = {} THEN EOF_error_code = 1
        ELSE IF FirstEOFLine = Len(file) THEN EOF_error_code = 0
        ELSE /\ EOF_error_code = 2
             /\ "error_line" \in EOF_problem.assigned
             /\ EOF_problem.error_line = FirstEOFLine

\* C4 witness: the only End-Of-File line is line 2 of 3 and is reported there
C4_Witness ==
    /\ EOFScanReturned
    /\ Len(file) = 3
    /\ EOFLines = {2}
    /\ EOF_error_code = 2
    /\ EOF_problem.error_line = 2

\* C5: in a file with more than one End-Of-File line, however many, checkEOF
\* returns 3 with error_line the number of the first of them.
C5_DuplicateEOF ==
    (EOFScanReturned /\ Cardinality(EOFLines) > 1) =>
        /\ EOF_error_code = 3
        /\ "error_line" \in EOF_problem.assigned
        /\ EOF_problem.error_line = FirstEOFLine

\* C6: checkEOF runs only after analyzeIntelHexFile has examined every line
\* and reported no record error; printIntelHexFile runs only after both scans
\* reported success; after an error of either scan no record is displayed.
C6_PassOrdering ==
    /\ (pc = "eof" \/ EOFScanReturned) =>
         /\ AnalysisReturned
         /\ file_error_code \notin 1..5
         /\ Len(codes) = Len(file)
         /\ \A i \in 1..Len(codes) : codes[i] = 0
    /\ (pc = "print" \/ shown > 0) =>
         /\ AnalysisReturned
         /\ file_error_code \notin 1..5
         /\ EOFScanReturned
         /\ EOF_error_code = 0
    /\ (file_error_code \in 1..5 \/ EOF_error_code # 0) => shown = 0

\* C6 witness: a record has been displayed
C6_Witness == pc = "print" /\ shown > 0 /\ EOF_error_code = 0

\* C7: for a line that passes the start-code, field and record-type checks,
\* data text that is not exactly byte_count pairs of digits makes checkRecord
\* return 4, so a line accepted with 0 carries exactly byte_count data bytes.
C7_ByteCountConsistency ==
    (Checked /\ rec.result.error_code \notin 1..3) =>
        (Len(DataText(rec.line)) # 2 * rec.result.byte_count
            => rec.result.error_code = 4)

\* C8: a line that begins with ':' and whose byte-count, address or
\* record-type field is missing or holds a character that is not a
\* hexadecimal digit makes checkRecord return 2.
C8_MalformedHeader ==
    (Checked /\ rec.line # <<>> /\ rec.line[1] = ":"
        /\ (Len(HeaderText(rec.line)) < 8 \/ ~AllHex(HeaderText(rec.line))))
    => rec.result.error_code = 2

\* C9: when every line of the file, the empty file included, passes
\* checkRecord, analyzeIntelHexFile returns 0 and main goes on to checkEOF.
C9_AnalysisSuccess ==
    (AnalysisReturned /\ Len(codes) = Len(file)
        /\ \A i \in 1..Len(codes) : codes[i] = 0)
    => (file_error_code = 0 /\ correct_format = 1)

\* C10: for a record of type 0x04 with data bytes d0, d1, displayed while
\* base_address holds B, the reported absolute address is the unsigned 32-bit
\* value of B + d0*0x1000000 + d1*0x10000: its upper half is
\* (B div 0x10000 + d0*0x100 + d1) mod 0x10000 and its lower half B mod 0x10000.
C10_LinearAddress ==
    (out.kind = "EXTENDED LINEAR ADDRESS" /\ out.byte_count >= 2) =>
        LET line == file[out.record_number]
            d0 == HexNum(SubSeq(line, 10, 11))
            d1 == HexNum(SubSeq(line, 12, 13))
            B  == out.printed_base
        IN  /\ out.abs_address.hi = ((B \div 65536) + (d0 * 256) + d1) % 65536
            /\ out.abs_address.lo = B % 65536
            /\ (B = 48 /\ d0 = 0 /\ d1 = 1) => out.abs_address = [hi |-> 1, lo |-> 48]

\* C10 witness: the Data record at 0x0030 followed by the 0x04 record with
\* data 00 01 was displayed with the address 0x00010030
C10_Witness ==
    /\ out.kind = "EXTENDED LINEAR ADDRESS"
    /\ out.printed_base = 48
    /\ SubSeq(file[out.record_number], 10, 13) = <<"0", "0", "0", "1">>
    /\ out.abs_address = [hi |-> 1, lo |-> 48]

\* a 0x04 record whose first data byte is 0x80 or above was displayed
LinearAddressHighByte ==
    /\ out.kind = "EXTENDED LINEAR ADDRESS"
    /\ out.d0 >= 128
    /\ out.printed_base > 0

\* C11: for a record of type 0x02 with data bytes d0, d1, displayed while
\* base_address holds B, the reported absolute address is
\* B + d0*0x1000 + d1*0x10, and base_address holds B afterwards.
C11_SegmentAddress ==
    (out.kind = "EXTENDED SEGMENT ADDRESS" /\ out.byte_count >= 2) =>
        LET line == file[out.record_number]
            d0 == HexNum(SubSeq(line, 10, 11))
            d1 == HexNum(SubSeq(line, 12, 13))
            B  == out.printed_base
            a  == B + (d0 * 4096) + (d1 * 16)
        IN  /\ out.abs_address = [hi |-> a \div 65536, lo |-> a % 65536]
            /\ base_address = B

\* C11 witness: the Data record at 0xFFFF followed by the 0x02 record with
\* data FF FF was displayed with the address 0x0010FFEF, the base still 0xFFFF
C11_Witness ==
    /\ out.kind = "EXTENDED SEGMENT ADDRESS"
    /\ out.printed_base = 65535
    /\ SubSeq(file[out.record_number], 10, 13) = <<"F", "F", "F", "F">>
    /\ out.abs_address = [hi |-> 16, lo |-> 65519]
    /\ base_address = 65535

\* C12: checkRecord is a function of its line: the code it returned for a
\* line is the only code a call on that line can return, whatever the
\* indeterminate values the call meets.
C12_Deterministic ==
    Checked =>
        \A g \in CheckGarbage(rec.line) :
            checkRecord(rec.line, g).error_code = rec.result.error_code

\* the lines displayed so far all have eight hexadecimal header characters
ShownWellFormed ==
    \A i \in 1..shown :
        Len(HeaderText(file[i])) = 8 /\ AllHex(HeaderText(file[i]))

\* the numbers of the displayed lines whose record-type field is 00
ShownData == {i \in 1..shown : SubSeq(file[i], 8, 9) = <<"0", "0">>}

LastShownData == CHOOSE i \in ShownData : \A j \in ShownData : j <= i

C14_FreshContext ==
    (pc = "print" /\ pos = 0) => base_address = 0

\* the sum of the bytes a string of hexadecimal digit pairs writes
RECURSIVE PairSum(_)
PairSum(str) ==
    IF Len(str) < 2 THEN 0
    ELSE HexNum(SubSeq(str, 1, 2)) + PairSum(SubSeq(str, 3, Len(str)))

\* a well-formed record text: ':', hexadecimal digit pairs only, a valid
\* record type, as many data bytes as the byte count says and bytes that sum
\* to 0 mod 256
WellFormedText(b) ==
    /\ Len(b) >= 11
    /\ b[1] = ":"
    /\ AllHex(SubSeq(b, 2, Len(b)))
    /\ SubSeq(b, 8, 9) \in ValidTypeStrs
    /\ Len(b) = 11 + (2 * HexNum(SubSeq(b, 2, 3)))
    /\ PairSum(SubSeq(b, 2, Len(b))) % 256 = 0

\* the characters of a line
Chars(line) == {line[i] : i \in 1..Len(line)}

\* C15: for a well-formed record text, ended by a newline or by nothing,
\* checkRecord compares with the value of the final two hexadecimal
\* characters of the record and returns 0.
C15_ChecksumLocation ==
    (Checked /\ WellFormedText(Body(rec.line)) /\ "\r" \notin Chars(rec.line)) =>
        /\ rec.result.error_code = 0
        /\ rec.result.checksum_record = HexNum(ChecksumText(rec.line))

\* C16: checkRecord and displayRecordInfo store to and read from record.data
\* only at offsets below the size handed to malloc, and that size is the
\* parsed byte_count (at least 2 where data[0] and data[1] are read).
C16_BufferBounds ==
    /\ (Checked /\ rec.result.alloc >= 0) =>
          \A o \in 0..(rec.result.byte_count + 3) :
              Written(rec.line, rec.result.byte_count, o) => o < rec.result.alloc
    /\ (out.kind # "none") =>
          /\ out.alloc = out.byte_count
          /\ \A o \in 0..(out.byte_count + 3) :
                Written(file[out.record_number], out.byte_count, o) => o < out.alloc
          /\ (out.kind \in {"EXTENDED SEGMENT ADDRESS", "EXTENDED LINEAR ADDRESS"})
                => out.alloc >= 2

\* C17: the display pass labels as END-OF-FILE RECORD the last line of the
\* file and no other record.
C17_EOFPresentation ==
    /\ (out.kind = "END-OF-FILE") => out.record_number = Len(file)
    /\ (pc = "done" /\ shown > 0 /\ shown = Len(file)) => out.kind = "END-OF-FILE"

====
